---------------------------- MODULE Spec2Model ----------------------------
(***************************************************************************)
(* NitroML benchmark pipeline result overview (results.py).                *)
(*                                                                         *)
(* Python strings are sequences of one-character strings, so that split,   *)
(* replace, lower, the repetition regex and string concatenation are       *)
(* computed on characters.  A Python value is a pair <<tag, payload>>:     *)
(*   <<"str", chars>>, <<"int", n>>, <<"float", <<num, den>>>> (a reduced  *)
(*   fraction), <<"bool", b>>, <<"none", 0>>, <<"datetime", digits>> and   *)
(*   <<"nan", 0>> for a cell pandas leaves empty.                          *)
(***************************************************************************)
EXTENDS Integers, Sequences, FiniteSets, TLC

(***************************************************************************)
(* Characters and strings                                                  *)
(***************************************************************************)

\* The characters of the model's strings, in code point order.
Alphabet ==
    <<" ", "'", "-", ".", "0", "1", "2", "3", "4", "5", "6", "7", "8", "9", "=", "A", "B", "C", "D", "E", "F", "G", "H", "I", "J", "K", "L", "M", "N", "O", "P", "Q", "R", "S", "T", "U", "V", "W", "X", "Y", "Z", "[", "]", "_", "a", "b", "c", "d", "e", "f", "g", "h", "i", "j", "k", "l", "m", "n", "o", "p", "q", "r", "s", "t", "u", "v", "w", "x", "y", "z">>

Upper == <<"A", "B", "C", "D", "E", "F", "G", "H", "I", "J", "K", "L", "M", "N", "O", "P", "Q", "R", "S", "T", "U", "V", "W", "X", "Y", "Z">>

LowerCase == <<"a", "b", "c", "d", "e", "f", "g", "h", "i", "j", "k", "l", "m", "n", "o", "p", "q", "r", "s", "t", "u", "v", "w", "x", "y", "z">>

DigitChars == <<"0", "1", "2", "3", "4", "5", "6", "7", "8", "9">>

IndexIn(c, s) == IF \E i \in 1..Len(s) : s[i] = c
                 THEN CHOOSE i \in 1..Len(s) : s[i] = c /\ \A j \in 1..(i-1) : s[j] # c
                 ELSE 0

IsDigit(c) == IndexIn(c, DigitChars) > 0

DigitVal(c) == IndexIn(c, DigitChars) - 1

AllDigits(s) == Len(s) > 0 /\ \A i \in 1..Len(s) : IsDigit(s[i])

\* str.lower()
Lower(s) == [i \in 1..Len(s) |->
               IF IndexIn(s[i], Upper) > 0 THEN LowerCase[IndexIn(s[i], Upper)] ELSE s[i]]

\* s < t in Python's string order (code points, then length).
RECURSIVE StrLess(_, _)
StrLess(s, t) ==
    IF t = <<>> THEN FALSE
    ELSE IF s = <<>> THEN TRUE
    ELSE IF Head(s) = Head(t) THEN StrLess(Tail(s), Tail(t))
    ELSE IndexIn(Head(s), Alphabet) < IndexIn(Head(t), Alphabet)

\* sorted(names) for a set of strings.
RECURSIVE Sorted(_)
Sorted(S) ==
    IF S = {} THEN <<>>
    ELSE LET m == CHOOSE x \in S : \A y \in S \ {x} : StrLess(x, y)
         IN  <<m>> \o Sorted(S \ {m})

StartsWith(s, p) == Len(s) >= Len(p) /\ SubSeq(s, 1, Len(p)) = p

EndsWith(s, p) == Len(s) >= Len(p) /\ SubSeq(s, Len(s) - Len(p) + 1, Len(s)) = p

\* str.split(sep) for a one-character separator: every occurrence splits.
RECURSIVE Split(_, _)
Split(s, sep) ==
    LET i == IndexIn(sep, s)
    IN  IF i = 0 THEN <<s>>
        ELSE <<SubSeq(s, 1, i - 1)>> \o Split(SubSeq(s, i + 1, Len(s)), sep)

\* str.replace(old, ""): every non-overlapping occurrence, left to right.
RECURSIVE Remove(_, _)
Remove(s, old) ==
    IF s = <<>> THEN <<>>
    ELSE IF StartsWith(s, old) THEN Remove(SubSeq(s, Len(old) + 1, Len(s)), old)
    ELSE <<Head(s)>> \o Remove(Tail(s), old)

\* The decimal value of a string of digits.
RECURSIVE Num(_)
Num(s) == IF s = <<>> THEN 0 ELSE 10 * Num(SubSeq(s, 1, Len(s) - 1)) + DigitVal(s[Len(s)])

RECURSIVE Pow10(_)
Pow10(n) == IF n = 0 THEN 1 ELSE 10 * Pow10(n - 1)

RECURSIVE Gcd(_, _)
Gcd(a, b) == IF b = 0 THEN a ELSE Gcd(b, a % b)

Abs(n) == IF n < 0 THEN 0 - n ELSE n

\* A float as a reduced fraction.
Float(num, den) ==
    LET g == Gcd(Abs(num), den)
    IN  <<"float", <<num \div g, den \div g>>>>

(***************************************************************************)
(* results.py: constants                                                   *)
(***************************************************************************)

RUN_ID_KEY == <<"r", "u", "n", "_", "i", "d">>
STARTED_AT == <<"s", "t", "a", "r", "t", "e", "d", "_", "a", "t">>
BENCHMARK_FULL_KEY == <<"b", "e", "n", "c", "h", "m", "a", "r", "k", "_", "f", "u", "l", "l", "n", "a", "m", "e">>
BENCHMARK_KEY == <<"b", "e", "n", "c", "h", "m", "a", "r", "k">>
RUN_KEY == <<"r", "u", "n">>
NUM_RUNS_KEY == <<"n", "u", "m", "_", "r", "u", "n", "s">>
_DEFAULT_COLUMNS == <<STARTED_AT, RUN_ID_KEY, BENCHMARK_KEY, RUN_KEY, NUM_RUNS_KEY>>
_DATAFRAME_CONTEXTUAL_COLUMNS ==
    <<STARTED_AT, RUN_ID_KEY, BENCHMARK_FULL_KEY, BENCHMARK_KEY, RUN_KEY, NUM_RUNS_KEY>>
_TRAINER == "my_orchestrator.components.trainer.component.EstimatorTrainer"
_BENCHMARK_RESULT == "NitroML.BenchmarkResult"
_TRAINER_ID == <<"c", "o", "m", "p", "o", "n", "e", "n", "t", "_", "i", "d">>
_TRAINER_ID_PREFIX == <<"E", "s", "t", "i", "m", "a", "t", "o", "r", "T", "r", "a", "i", "n", "e", "r">>
_HPARAMS == <<"h", "p", "a", "r", "a", "m", "s">>
_NAME == <<"n", "a", "m", "e">>
_PRODUCER_COMPONENT == <<"p", "r", "o", "d", "u", "c", "e", "r", "_", "c", "o", "m", "p", "o", "n", "e", "n", "t">>
_STATE == <<"s", "t", "a", "t", "e">>

(***************************************************************************)
(* _to_pytype: json.loads(val.lower()), the string itself on ValueError    *)
(***************************************************************************)

\* JSON's integer part: -?(0|[1-9][0-9]*)
IsJsonInt(s) ==
    LET d == IF s # <<>> /\ Head(s) = "-" THEN Tail(s) ELSE s
    IN  AllDigits(d) /\ (Len(d) = 1 \/ d[1] # "0")

JsonIntVal(s) == IF Head(s) = "-" THEN 0 - Num(Tail(s)) ELSE Num(s)

\* JSON's number without exponent, split at its ".": int "." digits+
IsJsonDecimal(p) == Len(p) = 2 /\ IsJsonInt(p[1]) /\ AllDigits(p[2])

JsonDecimalVal(p) ==
    IF Head(p[1]) = "-"
    THEN Float(0 - (Num(Tail(p[1])) * Pow10(Len(p[2])) + Num(p[2])), Pow10(Len(p[2])))
    ELSE Float(Num(p[1]) * Pow10(Len(p[2])) + Num(p[2]), Pow10(Len(p[2])))

\* json.loads on a scalar: [ok |-> FALSE] stands for the ValueError.
\* (Exponents, quoted strings, arrays and objects are not among the model's inputs.)
JsonLoads(s) ==
    IF s = <<"t", "r", "u", "e">> THEN [ok |-> TRUE, val |-> <<"bool", TRUE>>]
    ELSE IF s = <<"f", "a", "l", "s", "e">> THEN [ok |-> TRUE, val |-> <<"bool", FALSE>>]
    ELSE IF s = <<"n", "u", "l", "l">> THEN [ok |-> TRUE, val |-> <<"none", 0>>]
    ELSE IF IsJsonInt(s) THEN [ok |-> TRUE, val |-> <<"int", JsonIntVal(s)>>]
    ELSE IF IsJsonDecimal(Split(s, "."))
    THEN [ok |-> TRUE, val |-> JsonDecimalVal(Split(s, "."))]
    ELSE [ok |-> FALSE, val |-> <<"none", 0>>]

\* try: return loaded; except ValueError: return val
Loaded(val, loaded) == IF loaded.ok THEN loaded.val ELSE <<"str", val>>

_to_pytype(val) == Loaded(val, JsonLoads(Lower(val)))

(***************************************************************************)
(* Python dictionaries.  A property map (str -> value) is a function; the  *)
(* outer maps of a _Result keep their insertion order as a sequence of     *)
(* [key, props] entries with distinct keys.                                *)
(***************************************************************************)

EmptyProps == [n \in {} |-> <<"none", 0>>]

\* d[k] = v
Put(d, k, v) == [n \in (DOMAIN d) \cup {k} |-> IF n = k THEN v ELSE d[n]]

\* d1.update(d2) that keeps d1's value of a name both have
UpdateKeepingOld(d1, d2) ==
    [n \in (DOMAIN d1) \cup (DOMAIN d2) |-> IF n \in DOMAIN d1 THEN d1[n] ELSE d2[n]]

\* d1.update(d2)
Update(d1, d2) ==
    [n \in (DOMAIN d1) \cup (DOMAIN d2) |-> IF n \in DOMAIN d2 THEN d2[n] ELSE d1[n]]

Keys(d) == {d[i].key : i \in 1..Len(d)}

HasKey(d, k) == \E i \in 1..Len(d) : d[i].key = k

Get(d, k) == d[CHOOSE i \in 1..Len(d) : d[i].key = k].props

\* d[k] = props on an insertion-ordered dict
SetItem(d, k, props) ==
    IF HasKey(d, k)
    THEN [i \in 1..Len(d) |-> IF d[i].key = k THEN [key |-> k, props |-> props] ELSE d[i]]
    ELSE Append(d, [key |-> k, props |-> props])

(***************************************************************************)
(* _parse_hparams                                                          *)
(***************************************************************************)

RECURSIVE LStrip(_)
LStrip(s) == IF s # <<>> /\ Head(s) = " " THEN LStrip(Tail(s)) ELSE s

RECURSIVE RStrip(_)
RStrip(s) == IF s # <<>> /\ s[Len(s)] = " " THEN RStrip(SubSeq(s, 1, Len(s) - 1)) ELSE s

\* The elements of a list display after its "[": single-quoted strings (adjacent
\* ones concatenate), separated by commas, a trailing comma allowed, up to "]".
\* t is the text left, without leading blanks; cur is the string being read and
\* open says one has started.
RECURSIVE ParseItems(_, _, _, _)
ParseItems(t, items, cur, open) ==
    IF t = <<>> THEN [ok |-> FALSE, items |-> <<>>]
    ELSE IF Head(t) = "'"
    THEN IF IndexIn("'", Tail(t)) = 0 THEN [ok |-> FALSE, items |-> <<>>]
         ELSE ParseItems(LStrip(SubSeq(t, IndexIn("'", Tail(t)) + 2, Len(t))), items,
                         cur \o SubSeq(t, 2, IndexIn("'", Tail(t))), TRUE)
    ELSE IF Head(t) = "," /\ open
    THEN ParseItems(LStrip(Tail(t)), Append(items, cur), <<>>, FALSE)
    ELSE IF Head(t) = "]" /\ LStrip(Tail(t)) = <<>>
    THEN [ok |-> TRUE, items |-> IF open THEN Append(items, cur) ELSE items]
    ELSE [ok |-> FALSE, items |-> <<>>]

\* ast.literal_eval on the display of a list of strings; [ok |-> FALSE] stands for
\* the SyntaxError of a text that is no Python literal.  (Literals other than
\* lists of strings are not among the model's inputs.)
LiteralEval(s) ==
    IF LStrip(s) # <<>> /\ Head(LStrip(s)) = "["
    THEN ParseItems(LStrip(Tail(LStrip(s))), <<>>, <<>>, FALSE)
    ELSE [ok |-> FALSE, items |-> <<>>]

\* name, val = hp.split('='); hparams[name] = _to_pytype(val)
\* The unpacking raises ValueError unless the split gives exactly two parts.
RECURSIVE HparamsLoop(_, _, _)
HparamsLoop(hp_strings, i, hparams) ==
    IF i > Len(hp_strings) THEN [err |-> "", hparams |-> hparams]
    ELSE IF Len(Split(hp_strings[i], "=")) # 2
    THEN [err |-> "ValueError", hparams |-> hparams]
    ELSE HparamsLoop(hp_strings, i + 1,
                     Put(hparams, Split(hp_strings[i], "=")[1],
                         _to_pytype(Split(hp_strings[i], "=")[2])))

Evaluated(hp_strings) ==
    IF ~hp_strings.ok THEN [err |-> "SyntaxError", hparams |-> EmptyProps]
    ELSE HparamsLoop(hp_strings.items, 1, EmptyProps)

_parse_hparams(hp_prop) == Evaluated(LiteralEval(hp_prop))

(***************************************************************************)
(* datetime.datetime.fromtimestamp(int(run_id)), except ValueError: run_id *)
(***************************************************************************)

RECURSIVE Concat(_)
Concat(parts) == IF parts = <<>> THEN <<>> ELSE Head(parts) \o Concat(Tail(parts))

RECURSIVE StripZeros(_)
StripZeros(d) == IF Len(d) > 1 /\ Head(d) = "0" THEN StripZeros(Tail(d)) ELSE d

\* int(s): surrounding blanks, an optional sign, digits with single underscores
\* between them.  [ok |-> FALSE] stands for the ValueError.
IntOfGroups(neg, groups) ==
    IF \A i \in 1..Len(groups) : AllDigits(groups[i])
    THEN [ok |-> TRUE, neg |-> neg /\ StripZeros(Concat(groups)) # <<"0">>,
          digits |-> StripZeros(Concat(groups))]
    ELSE [ok |-> FALSE, neg |-> FALSE, digits |-> <<>>]

IntOfStripped(t) ==
    IF t # <<>> /\ Head(t) = "-" THEN IntOfGroups(TRUE, Split(Tail(t), "_"))
    ELSE IntOfGroups(FALSE, Split(t, "_"))

IntLiteral(s) == IntOfStripped(RStrip(LStrip(s)))

\* a <= b for two digit strings without leading zeros
DigitsLeq(a, b) ==
    \/ Len(a) < Len(b)
    \/ Len(a) = Len(b) /\ (a = b \/ StrLess(a, b))

\* The largest and smallest timestamps of a datetime (years 1 to 9999, UTC), of a
\* struct tm (a C int of years) and of a 64-bit time_t.
MaxDatetime == <<"2", "5", "3", "4", "0", "2", "3", "0", "0", "7", "9", "9">>
MinDatetime == <<"6", "2", "1", "3", "5", "5", "1", "0", "4", "0", "0">>
MaxTm == <<"6", "7", "7", "6", "8", "0", "3", "6", "1", "9", "1", "6", "7", "6", "7", "9", "9">>
MinTm == <<"6", "7", "7", "6", "8", "0", "4", "0", "6", "0", "9", "7", "4", "0", "8", "0", "0">>
MaxTimeT == <<"9", "2", "2", "3", "3", "7", "2", "0", "3", "6", "8", "5", "4", "7", "7", "5", "8", "0", "7">>
MinTimeT == <<"9", "2", "2", "3", "3", "7", "2", "0", "3", "6", "8", "5", "4", "7", "7", "5", "8", "0", "8">>

\* What fromtimestamp does with the integer n: a datetime, or the exception raised.
FromTimestamp(n) ==
    IF DigitsLeq(n.digits, IF n.neg THEN MinDatetime ELSE MaxDatetime) THEN "datetime"
    ELSE IF DigitsLeq(n.digits, IF n.neg THEN MinTm ELSE MaxTm) THEN "ValueError"
    ELSE IF DigitsLeq(n.digits, IF n.neg THEN MinTimeT ELSE MaxTimeT) THEN "OSError"
    ELSE "OverflowError"

\* try: fromtimestamp(n), with n = int(run_id); except ValueError: run_id
TryFromTimestamp(run_id, n) ==
    IF n.ok /\ FromTimestamp(n) = "datetime"
    THEN [err |-> "", val |-> <<"datetime", <<n.neg, n.digits>>>>]
    ELSE IF ~n.ok \/ FromTimestamp(n) = "ValueError"
    THEN [err |-> "", val |-> <<"str", run_id>>]
    ELSE [err |-> FromTimestamp(n), val |-> <<"none", 0>>]

StartedAt(run_id) == TryFromTimestamp(run_id, IntLiteral(run_id))

(***************************************************************************)
(* The metadata store (read only).                                         *)
(*   executions: <<[id, type, properties: name -> string_value]>>          *)
(*   artifacts:  <<[id, type, custom_properties: name -> <<"int", n>> or   *)
(*                 <<"string", chars>>]>>                                  *)
(*   events:     <<[execution_id, artifact_id]>>                           *)
(***************************************************************************)

VARIABLES
    store,               \* the MLMD instance overview() reads
    metric_aggregators,  \* overview()'s argument: <<>> (None) or a list of names
    pc,                  \* where overview() is
    err,                 \* the exception overview() raised, "" if none
    hparams_result,      \* _get_hparams(store)
    metrics_result,      \* _get_benchmark_results(store)
    result,              \* _merge_results(hparams_result, metrics_result)
    df,                  \* _make_dataframe(results_list, result.property_names)
    out                  \* the table overview() returns

vars == <<store, metric_aggregators, pc, err, hparams_result, metrics_result,
          result, df, out>>

\* ex.properties[name].string_value: a protobuf map yields the default value, an
\* empty string, for a name that is not set.
StringValue(properties, name) ==
    IF name \in DOMAIN properties THEN properties[name] ELSE <<>>

get_executions_by_type(s, type) ==
    SelectSeq(s.executions, LAMBDA ex : ex.type = type)

get_artifacts_by_type(s, type) ==
    SelectSeq(s.artifacts, LAMBDA a : a.type = type)

get_events_by_artifact_ids(s, artifact_ids) ==
    SelectSeq(s.events,
              LAMBDA ev : \E i \in 1..Len(artifact_ids) : artifact_ids[i] = ev.artifact_id)

\* The executions found for the requested ids, in the order requested.
RECURSIVE get_executions_by_id(_, _)
get_executions_by_id(s, ids) ==
    IF ids = <<>> THEN <<>>
    ELSE SelectSeq(s.executions, LAMBDA ex : ex.id = Head(ids))
         \o get_executions_by_id(s, Tail(ids))

EmptyResult == [properties |-> <<>>, property_names |-> <<>>]

(***************************************************************************)
(* _get_hparams                                                            *)
(***************************************************************************)

\* The composite key of a trainer execution: run_id + trainer_id.
TrainerId(component_id) == Remove(component_id, _TRAINER_ID_PREFIX)

\* trainer_id[1:]
DropFirst(s) == IF s = <<>> THEN <<>> ELSE Tail(s)

\* The loop over trainer_execs, from execution i on.
RECURSIVE GetHparamsLoop(_, _, _, _)

\* The body of the loop for one execution, given its run id, its trainer id, its
\* parsed hparams and its start time.
GetHparamsBody(trainer_execs, i, results, hparam_names, run_id, trainer_id, parsed, started) ==
    IF parsed.err # "" THEN [err |-> parsed.err, res |-> EmptyResult]
    ELSE IF started.err # "" THEN [err |-> started.err, res |-> EmptyResult]
    ELSE GetHparamsLoop(
             trainer_execs, i + 1,
             SetItem(results, run_id \o trainer_id,
                     Put(Put(Put(parsed.hparams, RUN_ID_KEY, <<"str", run_id>>),
                             BENCHMARK_KEY, <<"str", DropFirst(trainer_id)>>),
                         STARTED_AT, started.val)),
             hparam_names \cup DOMAIN parsed.hparams)

GetHparamsLoop(trainer_execs, i, results, hparam_names) ==
    IF i > Len(trainer_execs)
    THEN [err |-> "",
          res |-> [properties |-> results, property_names |-> Sorted(hparam_names)]]
    ELSE GetHparamsBody(
             trainer_execs, i, results, hparam_names,
             StringValue(trainer_execs[i].properties, RUN_ID_KEY),
             TrainerId(StringValue(trainer_execs[i].properties, _TRAINER_ID)),
             _parse_hparams(StringValue(trainer_execs[i].properties, _HPARAMS)),
             StartedAt(StringValue(trainer_execs[i].properties, RUN_ID_KEY)))

_get_hparams(s) == GetHparamsLoop(get_executions_by_type(s, _TRAINER), 1, <<>>, {})

(***************************************************************************)
(* _get_artifact_run_id_map                                                *)
(***************************************************************************)

\* exec_to_artifact[event.execution_id] = event.artifact_id, over the events
RECURSIVE ExecToArtifact(_, _)
ExecToArtifact(events, exec_to_artifact) ==
    IF events = <<>> THEN exec_to_artifact
    ELSE ExecToArtifact(Tail(events),
                        SetItem(exec_to_artifact, Head(events).execution_id,
                                Head(events).artifact_id))

\* artifact_to_run_id[exec_to_artifact[execution.id]] = run id, over the executions
RECURSIVE ArtifactToRunId(_, _, _)
ArtifactToRunId(executions, exec_to_artifact, artifact_to_run_id) ==
    IF executions = <<>> THEN artifact_to_run_id
    ELSE ArtifactToRunId(Tail(executions), exec_to_artifact,
                         SetItem(artifact_to_run_id,
                                 Get(exec_to_artifact, Head(executions).id),
                                 StringValue(Head(executions).properties, RUN_ID_KEY)))

KeyList(d) == [i \in 1..Len(d) |-> d[i].key]

RunIdsOf(s, exec_to_artifact) ==
    ArtifactToRunId(get_executions_by_id(s, KeyList(exec_to_artifact)), exec_to_artifact, <<>>)

\* The map is a dict artifact id -> run id ("props" holds the run id).
_get_artifact_run_id_map(s, artifact_ids) ==
    RunIdsOf(s, ExecToArtifact(get_events_by_artifact_ids(s, artifact_ids), <<>>))

(***************************************************************************)
(* _get_benchmark_results                                                  *)
(***************************************************************************)

\* evals of one artifact: int_value as is, everything else through _to_pytype
Evals(custom_properties) ==
    [key \in DOMAIN custom_properties |->
        IF custom_properties[key][1] = "int"
        THEN <<"int", custom_properties[key][2]>>
        ELSE _to_pytype(custom_properties[key][2])]

\* The first loop: metrics[artifact.id] = evals
RECURSIVE MetricsLoop(_, _)
MetricsLoop(publisher_artifacts, metrics) ==
    IF publisher_artifacts = <<>> THEN metrics
    ELSE MetricsLoop(Tail(publisher_artifacts),
                     SetItem(metrics, Head(publisher_artifacts).id,
                             Evals(Head(publisher_artifacts).custom_properties)))

\* The second loop over metrics.items(), from entry i on.
RECURSIVE PropertiesLoop(_, _, _, _)

\* The rest of the loop's body once the run id is found and the start time computed;
\* evals holds run_id and started_at.  A benchmark that is no string cannot be
\* concatenated to the run id (TypeError).
PropertiesBody(metrics, i, artifact_to_run_id, properties, run_id, evals) ==
    IF BENCHMARK_KEY \notin DOMAIN evals THEN [err |-> "KeyError", properties |-> <<>>]
    ELSE IF evals[BENCHMARK_KEY][1] # "str" THEN [err |-> "TypeError", properties |-> <<>>]
    ELSE PropertiesLoop(metrics, i + 1, artifact_to_run_id,
                        SetItem(properties, run_id \o <<".">> \o evals[BENCHMARK_KEY][2], evals))

PropertiesStart(metrics, i, artifact_to_run_id, properties, run_id, started) ==
    IF started.err # "" THEN [err |-> started.err, properties |-> <<>>]
    ELSE PropertiesBody(metrics, i, artifact_to_run_id, properties, run_id,
                        Put(Put(metrics[i].props, RUN_ID_KEY, <<"str", run_id>>),
                            STARTED_AT, started.val))

PropertiesLoop(metrics, i, artifact_to_run_id, properties) ==
    IF i > Len(metrics) THEN [err |-> "", properties |-> properties]
    \* run_id = artifact_to_run_id[artifact_id]
    ELSE IF ~HasKey(artifact_to_run_id, metrics[i].key)
    THEN [err |-> "KeyError", properties |-> <<>>]
    ELSE PropertiesStart(metrics, i, artifact_to_run_id, properties,
                         Get(artifact_to_run_id, metrics[i].key),
                         StartedAt(Get(artifact_to_run_id, metrics[i].key)))

\* The names left out of the metric property names.
ExcludedNames ==
    {_NAME, _PRODUCER_COMPONENT, _STATE} \cup {_DEFAULT_COLUMNS[i] : i \in 1..Len(_DEFAULT_COLUMNS)}

PropertyNames(metrics) == UNION {DOMAIN metrics[i].props : i \in 1..Len(metrics)}

BenchmarkResults(property_names, loop) ==
    IF loop.err # "" THEN [err |-> loop.err, res |-> EmptyResult]
    ELSE [err |-> "",
          res |-> [properties |-> loop.properties,
                   property_names |-> Sorted(property_names \ ExcludedNames)]]

ResultsOfMetrics(s, metrics) ==
    BenchmarkResults(PropertyNames(metrics),
                     PropertiesLoop(metrics, 1,
                                    _get_artifact_run_id_map(s, KeyList(metrics)), <<>>))

_get_benchmark_results(s) ==
    ResultsOfMetrics(s, MetricsLoop(get_artifacts_by_type(s, _BENCHMARK_RESULT), <<>>))

(***************************************************************************)
(* _merge_results                                                          *)
(***************************************************************************)

\* The loop over result2.properties.items()
RECURSIVE MergeLoop(_, _)
MergeLoop(properties, items) ==
    IF items = <<>> THEN properties
    ELSE MergeLoop(IF HasKey(properties, Head(items).key)
                   THEN SetItem(properties, Head(items).key,
                                Update(Get(properties, Head(items).key), Head(items).props))
                   ELSE SetItem(properties, Head(items).key, Head(items).props),
                   Tail(items))

_merge_results(result1, result2) ==
    [properties |-> MergeLoop(result1.properties, result2.properties),
     property_names |-> result1.property_names \o result2.property_names]

(***************************************************************************)
(* pandas tables.  A DataFrame is [index, columns, rows]: the names of the *)
(* index levels, the column labels in order, and one function per row from *)
(* the index and column names to values, <<"nan", 0>> where the row's dict *)
(* had no such key.  The empty DataFrame has no columns and no rows.       *)
(***************************************************************************)

NaN == <<"nan", 0>>

EmptyFrame == [index |-> <<>>, columns |-> <<>>, rows |-> <<>>]

Elems(seq) == {seq[i] : i \in 1..Len(seq)}

\* name in df
InFrame(frame, name) == name \in Elems(frame.columns)

\* re.sub(r'\.run_\d_of_\d$', '', x): the pattern has one digit in each place and
\* is anchored at the end, so at most the last eleven characters go.
RepetitionMatch(x) ==
    /\ Len(x) >= 11
    /\ SubSeq(x, Len(x) - 10, Len(x) - 6) = <<".", "r", "u", "n", "_">>
    /\ IsDigit(x[Len(x) - 5])
    /\ SubSeq(x, Len(x) - 4, Len(x) - 1) = <<"_", "o", "f", "_">>
    /\ IsDigit(x[Len(x)])

StripRepetition(x) == IF RepetitionMatch(x) THEN SubSeq(x, 1, Len(x) - 11) ELSE x

RemoveAll(seq, x) == SelectSeq(seq, LAMBDA y : y # x)

\* list.remove(x): the first occurrence goes
RemoveFirst(seq, x) ==
    LET i == IndexIn(x, seq)
    IN  SubSeq(seq, 1, i - 1) \o SubSeq(seq, i + 1, Len(seq))

(***************************************************************************)
(* _make_dataframe                                                         *)
(***************************************************************************)

_make_dataframe(metrics_list, columns) ==
    LET keys == UNION {DOMAIN metrics_list[i] : i \in 1..Len(metrics_list)}
        \* pd.DataFrame(metrics_list), then the two benchmark columns
        Cell(i, name) ==
            IF name = BENCHMARK_FULL_KEY THEN metrics_list[i][BENCHMARK_KEY]
            ELSE IF name = BENCHMARK_KEY
            THEN <<"str", StripRepetition(metrics_list[i][BENCHMARK_KEY][2])>>
            ELSE IF name \in DOMAIN metrics_list[i] THEN metrics_list[i][name]
            ELSE NaN
        key_columns ==
            SelectSeq(_DATAFRAME_CONTEXTUAL_COLUMNS,
                      LAMBDA c : ~(c \in {RUN_KEY, NUM_RUNS_KEY} /\ c \notin keys))
        selected == key_columns \o columns
    IN  IF metrics_list = <<>> THEN [err |-> "", df |-> EmptyFrame]
        ELSE IF BENCHMARK_KEY \notin keys THEN [err |-> "KeyError", df |-> EmptyFrame]
        ELSE IF \E i \in 1..Len(metrics_list) :
                    \/ BENCHMARK_KEY \notin DOMAIN metrics_list[i]
                    \/ metrics_list[i][BENCHMARK_KEY][1] # "str"
        THEN [err |-> "TypeError", df |-> EmptyFrame]
        \* df[key_columns + columns]: every label has to be a column
        ELSE IF \E c \in Elems(selected) : c \notin keys \cup {BENCHMARK_FULL_KEY}
        THEN [err |-> "KeyError", df |-> EmptyFrame]
        ELSE [err |-> "",
              df |-> [index |-> <<STARTED_AT>>,
                      columns |-> RemoveAll(selected, STARTED_AT),
                      rows |-> [i \in 1..Len(metrics_list) |->
                                   [name \in Elems(selected) |-> Cell(i, name)]]]]

(***************************************************************************)
(* _aggregate_results                                                      *)
(***************************************************************************)

IsNumber(v) == v[1] \in {"int", "float"}

\* A group key cell pandas treats as missing: its row joins no group.
IsNA(v) == v[1] \in {"nan", "none"}

Numerator(v) == IF v[1] = "int" THEN v[2] ELSE v[2][1]

Denominator(v) == IF v[1] = "int" THEN 1 ELSE v[2][2]

\* The sum of a sequence of numbers, as a fraction <<num, den>>.
RECURSIVE SumOf(_)
SumOf(vals) ==
    IF vals = <<>> THEN <<0, 1>>
    ELSE LET rest == SumOf(Tail(vals))
             v == Head(vals)
         IN  <<Numerator(v) * rest[2] + rest[1] * Denominator(v), Denominator(v) * rest[2]>>

\* 'mean' of a column over a group: the missing cells are skipped
Mean(cells) ==
    LET vals == SelectSeq(cells, LAMBDA v : IsNumber(v))
        total == SumOf(vals)
    IN  IF vals = <<>> THEN NaN ELSE Float(total[1], total[2] * Len(vals))

\* The indexes of the first row of every group, in row order.
GroupHeads(rows, by) ==
    SelectSeq([i \in 1..Len(rows) |-> i],
              LAMBDA i : /\ \A c \in Elems(by) : ~IsNA(rows[i][c])
                         /\ \A j \in 1..(i - 1) : \E c \in Elems(by) : rows[j][c] # rows[i][c])

\* ' '.join(col).strip() for the column (name, aggregator)
FlatName(name, agg) == RStrip(LStrip(name \o <<" ">> \o agg))

\* (The groups come in the order of their first rows; pandas sorts them by key.
\* A column that holds anything but numbers does not reach the result of 'mean'.)
_aggregate_results(frame, aggregators, groupby_columns0) ==
    LET columns1 == RemoveAll(frame.columns, RUN_KEY)
        g1 == RemoveFirst(RemoveFirst(groupby_columns0, RUN_KEY), BENCHMARK_FULL_KEY)
        groupby_columns == IF NUM_RUNS_KEY \notin Elems(frame.columns)
                           THEN RemoveFirst(g1, NUM_RUNS_KEY) ELSE g1
        labels == Elems(columns1) \cup Elems(frame.index)
        value_columns ==
            SelectSeq(columns1,
                      LAMBDA c : /\ c \notin Elems(groupby_columns)
                                 /\ \A i \in 1..Len(frame.rows) :
                                        IsNumber(frame.rows[i][c]) \/ frame.rows[i][c] = NaN)
        heads == GroupHeads(frame.rows, groupby_columns)
        Members(h) ==
            SelectSeq(frame.rows,
                      LAMBDA r : \A c \in Elems(groupby_columns) : r[c] = frame.rows[h][c])
        Column(members, c) == [k \in 1..Len(members) |-> members[k][c]]
        flat == [k \in 1..(Len(value_columns) * Len(aggregators)) |->
                    FlatName(value_columns[((k - 1) \div Len(aggregators)) + 1],
                             aggregators[((k - 1) % Len(aggregators)) + 1])]
        GroupRow(h) ==
            [name \in Elems(groupby_columns) \cup Elems(flat) |->
                IF name \in Elems(groupby_columns) THEN frame.rows[h][name]
                ELSE LET c == CHOOSE c \in Elems(value_columns) :
                                  \E a \in Elems(aggregators) : FlatName(c, a) = name
                     IN  Mean(Column(Members(h), c))]
    IN  IF \E c \in {RUN_KEY, BENCHMARK_FULL_KEY} : c \notin Elems(groupby_columns0)
        THEN [err |-> "ValueError", df |-> EmptyFrame]
        \* df.groupby(groupby_columns): every key has to be a column or index level
        ELSE IF \E c \in Elems(groupby_columns) : c \notin labels
        THEN [err |-> "KeyError", df |-> EmptyFrame]
        ELSE [err |-> "",
              df |-> [index |-> <<STARTED_AT>>,
                      columns |-> RemoveAll(groupby_columns, STARTED_AT) \o flat,
                      rows |-> [k \in 1..Len(heads) |-> GroupRow(heads[k])]]]

(***************************************************************************)
(* The stores overview() is run on                                         *)
(***************************************************************************)

\* The most records (trainer executions and benchmark-result artifacts) of a store.
MaxRecords == 2

\* The most keys of a _Result handed to _merge_results on its own.
MaxKeys == 2

_PUBLISHER == "BenchmarkResultPublisher"

\* A trainer execution of run run_id for benchmark bench, with the serialized hparams hp
TrainerExecution(id, run_id, bench, hp) ==
    [id |-> id, type |-> _TRAINER,
     properties |-> (RUN_ID_KEY :> run_id
                     @@ _TRAINER_ID :> (_TRAINER_ID_PREFIX \o <<".">> \o bench)
                     @@ _HPARAMS :> hp)]

\* The execution that published benchmark results in run run_id
PublisherExecution(id, run_id) ==
    [id |-> id, type |-> _PUBLISHER, properties |-> (RUN_ID_KEY :> run_id)]

BenchmarkResult(id, custom_properties) ==
    [id |-> id, type |-> _BENCHMARK_RESULT, custom_properties |-> custom_properties]

\* Run ids: an epoch, a name, an integer past year 9999, one past a C int of years
\* and one past time_t.
RunEpoch == <<"1">>
RunName == <<"a", "b", "c">>
RunYear10000 == <<"2", "5", "3", "4", "0", "2", "3", "0", "0", "8", "0", "0">>
RunPastTm == <<"6", "7", "7", "6", "8", "0", "3", "6", "1", "9", "1", "6", "7", "6", "8", "0", "0">>
RunPastTimeT == <<"9", "2", "2", "3", "3", "7", "2", "0", "3", "6", "8", "5", "4", "7", "7", "5", "8", "0", "8">>

\* The publisher executions a store may hold, by id: two of run "1", one of run
\* "abc" and one of the run past time_t.
Publishers == (10 :> RunEpoch) @@ (11 :> RunName) @@ (12 :> RunPastTimeT) @@ (13 :> RunEpoch)

\* What the event of an artifact may name: nothing (0: the artifact has no event),
\* a publisher, or an execution the store does not hold (99).
Producers == {0, 99} \cup DOMAIN Publishers

\* The bookkeeping properties TFX sets on every artifact.
Bookkeeping ==
    (_NAME :> <<"string", <<"r", "e", "s", "u", "l", "t", "s">>>>)
    @@ (_PRODUCER_COMPONENT :> <<"string", <<"B", "e", "n", "c", "h", "m", "a", "r", "k", "R", "e", "s", "u", "l", "t", "P", "u", "b", "l", "i", "s", "h", "e", "r", ".", "a">>>>)
    @@ (_STATE :> <<"string", <<"p", "u", "b", "l", "i", "s", "h", "e", "d">>>>)

Repetition == (RUN_KEY :> <<"int", 1>>) @@ (NUM_RUNS_KEY :> <<"int", 2>>)

Accuracy(v) == <<"a", "c", "c", "u", "r", "a", "c", "y">> :> <<"string", v>>

Loss(v) == <<"l", "o", "s", "s">> :> <<"string", v>>

\* The custom properties of an artifact, but for its benchmark name.
Shapes ==
    { EmptyProps,
      Accuracy(<<"0", ".", "8">>),
      Repetition @@ Bookkeeping,
      Repetition @@ Bookkeeping @@ Accuracy(<<"0", ".", "8">>),
      Repetition @@ Bookkeeping @@ Loss(<<"2">>) }

HparamLists == { <<"[", "'", "l", "r", "=", "1", "'", "]">>, <<"[", "'", "l", "r", "=", "1", "'", ",", " ", "'", "b", "s", "=", "2", "'", ",", " ", "'", "o", "p", "t", "=", "A", "d", "a", "m", "'", "]">> }

\* A store from its trainers (run id, benchmark, hparams), its artifacts (custom
\* properties) and, for each artifact, the execution of its event (0: no event).
MakeStore(trainers, artifacts, producers) ==
    LET used == {producers[i] : i \in 1..Len(producers)} \cap DOMAIN Publishers
        pubs == SelectSeq(<<10, 11, 12, 13>>, LAMBDA e : e \in used)
    IN  [executions |->
             [i \in 1..Len(trainers) |->
                 TrainerExecution(i, trainers[i][1], trainers[i][2], trainers[i][3])]
             \o [i \in 1..Len(pubs) |-> PublisherExecution(pubs[i], Publishers[pubs[i]])],
         artifacts |-> [i \in 1..Len(artifacts) |-> BenchmarkResult(i, artifacts[i])],
         events |->
             LET linked == SelectSeq([i \in 1..Len(producers) |-> i],
                                     LAMBDA i : producers[i] # 0)
             IN  [k \in 1..Len(linked) |->
                     [execution_id |-> producers[linked[k]], artifact_id |-> linked[k]]]]

Mean_ == <<"m", "e", "a", "n">>

\* The state before overview(store, metric_aggregators) runs.
Start(s, aggregators) ==
    /\ store = s
    /\ metric_aggregators = aggregators
    /\ pc = "start"
    /\ err = ""
    /\ hparams_result = EmptyResult
    /\ metrics_result = EmptyResult
    /\ result = EmptyResult
    /\ df = EmptyFrame
    /\ out = EmptyFrame

\* Stores of runs "1" and "abc" over the benchmarks "a" and "b".
InitJoin ==
    \E nt \in 0..MaxRecords :
      \E na \in 0..(MaxRecords - nt) :
        \E t \in [1..nt -> {RunEpoch, RunName} \X {<<"a">>, <<"b">>} \X HparamLists],
           a \in [1..na -> { (<<"b", "e", "n", "c", "h", "m", "a", "r", "k">> :> <<"string", b>>) @@ sh :
                               b \in {<<"a">>, <<"b">>}, sh \in Shapes }],
           p \in [1..na -> Producers],
           aggregators \in {<<>>, <<Mean_>>} :
          Start(MakeStore(t, a, p), aggregators)

\* The result artifact of one repetition: rep is <<>> or <<i, n>>, for the name
\* base.run_<i>_of_<n>.
RepetitionResult(base, rep, accuracy) ==
    (<<"b", "e", "n", "c", "h", "m", "a", "r", "k">> :> <<"string", IF rep = <<>> THEN base
                                  ELSE base \o <<".", "r", "u", "n", "_">> \o rep[1] \o <<"_", "o", "f", "_">> \o rep[2]>>)
    @@ (RUN_KEY :> <<"int", IF rep = <<>> THEN 1 ELSE Num(rep[1])>>)
    @@ (NUM_RUNS_KEY :> <<"int", IF rep = <<>> THEN 1 ELSE Num(rep[2])>>)
    @@ Bookkeeping @@ Accuracy(accuracy)

Repetitions ==
    { <<>>, <<<<"1">>, <<"2">>>>, <<<<"2">>, <<"2">>>>, <<<<"1">>, <<"1", "0">>>>, <<<<"2">>, <<"1", "0">>>>, <<<<"1", "0">>, <<"1", "0">>>> }

\* Stores of one run of repeated benchmarks, each result published by an execution
\* of its own, with or without the trainer execution of every repetition.
InitRepetitions ==
    \E na \in 0..MaxRecords :
      \E a \in [1..na -> { RepetitionResult(base, rep, acc) :
                             base \in {<<"b", "e", "n", "c", "h">>, <<"b", "e", "n", "c", "h", ".", "r", "u", "n", "_", "3", "_", "o", "f", "_", "1", "0">>},
                             rep \in Repetitions, acc \in {<<"0", ".", "8">>, <<"0", ".", "9">>} }],
         trained \in BOOLEAN,
         aggregators \in {<<>>, <<Mean_>>} :
        Start(MakeStore([i \in 1..(IF trained THEN na ELSE 0) |->
                            <<RunEpoch, a[i][BENCHMARK_KEY][2], <<"[", "'", "l", "r", "=", "1", "'", "]">>>>],
                        a, [i \in 1..na |-> IF i = 1 THEN 10 ELSE 13]),
              aggregators)

\* The serialized hparams of a trainer execution.
HparamTexts ==
    { <<"[", "]">>, <<"[", "'", "l", "r", "=", "1", "'", "]">>, <<"[", "'", "l", "r", "=", "0", ".", "5", "'", ",", " ", "'", "s", "h", "u", "f", "f", "l", "e", "=", "T", "r", "u", "e", "'", ",", " ", "'", "o", "p", "t", "=", "A", "d", "a", "m", "'", "]">>, <<"[", "'", "l", "r", "=", "1", "'", ",", " ", "'", "l", "r", "=", "2", "'", "]">>,
      <<"[", "'", "d", "e", "c", "a", "y", "=", "n", "o", "n", "e", "'", ",", " ", "'", "s", "t", "e", "p", "s", "=", "-", "3", "'", ",", " ", "'", "s", "e", "e", "d", "=", "0", "1", "'", "]">>, <<"[", "'", "e", "x", "p", "r", "=", "a", "=", "b", "'", "]">>, <<"[", "'", "l", "r", "'", "]">>,
      <<"[", "'", "l", "r", "=", "1", "'">>, <<"l", "r", "=", "1">> }

\* Stores of one trainer execution.
InitHparams ==
    \E run_id \in {RunEpoch, RunName, RunYear10000, RunPastTm, RunPastTimeT},
       hp \in HparamTexts,
       aggregators \in {<<>>, <<Mean_>>} :
      Start(MakeStore(<<<<run_id, <<"a">>, hp>>>>, <<>>, <<>>), aggregators)

Init == InitJoin \/ InitRepetitions \/ InitHparams

(***************************************************************************)
(* overview(store, metric_aggregators), one action per statement           *)
(***************************************************************************)

Raise(e) ==
    /\ pc' = "raised"
    /\ err' = e

\* hparams_result = _get_hparams(store)
GetHparams ==
    /\ pc = "start"
    /\ LET r == _get_hparams(store)
       IN  IF r.err # ""
           THEN Raise(r.err) /\ UNCHANGED hparams_result
           ELSE pc' = "hparams" /\ hparams_result' = r.res /\ UNCHANGED err
    /\ UNCHANGED <<store, metric_aggregators, metrics_result, result, df, out>>

\* metrics_result = _get_benchmark_results(store)
GetBenchmarkResults ==
    /\ pc = "hparams"
    /\ LET r == _get_benchmark_results(store)
       IN  IF r.err # ""
           THEN Raise(r.err) /\ UNCHANGED metrics_result
           ELSE pc' = "metrics" /\ metrics_result' = r.res /\ UNCHANGED err
    /\ UNCHANGED <<store, metric_aggregators, hparams_result, result, df, out>>

\* result = _merge_results(hparams_result, metrics_result).  The merge works on
\* the dict hparams_result.properties itself, which is result.properties afterwards.
MergeResults ==
    /\ pc = "metrics"
    /\ result' = _merge_results(hparams_result, metrics_result)
    /\ hparams_result' = [properties |-> result'.properties,
                          property_names |-> hparams_result.property_names]
    /\ pc' = "merged"
    /\ UNCHANGED <<store, metric_aggregators, err, metrics_result, df, out>>

\* The entries with more properties than there are default columns.
ResultsList(res) ==
    LET kept == SelectSeq(res.properties,
                          LAMBDA e : Cardinality(DOMAIN e.props) > Len(_DEFAULT_COLUMNS))
    IN  [i \in 1..Len(kept) |-> kept[i].props]

\* results_list = [...]; df = _make_dataframe(results_list, result.property_names)
MakeDataframe ==
    /\ pc = "merged"
    /\ LET r == _make_dataframe(ResultsList(result), result.property_names)
       IN  IF r.err # ""
           THEN Raise(r.err) /\ UNCHANGED df
           ELSE pc' = "frame" /\ df' = r.df /\ UNCHANGED err
    /\ UNCHANGED <<store, metric_aggregators, hparams_result, metrics_result, result, out>>

\* if metric_aggregators: return _aggregate_results(...)
AggregateResults ==
    /\ pc = "frame"
    /\ metric_aggregators # <<>>
    /\ LET r == _aggregate_results(
                    df, metric_aggregators,
                    _DATAFRAME_CONTEXTUAL_COLUMNS \o hparams_result.property_names)
       IN  IF r.err # ""
           THEN Raise(r.err) /\ UNCHANGED out
           ELSE pc' = "done" /\ out' = r.df /\ UNCHANGED err
    /\ UNCHANGED <<store, metric_aggregators, hparams_result, metrics_result, result, df>>

\* return df
ReturnFrame ==
    /\ pc = "frame"
    /\ metric_aggregators = <<>>
    /\ out' = df
    /\ pc' = "done"
    /\ UNCHANGED <<store, metric_aggregators, err, hparams_result, metrics_result, result, df>>

Next ==
    \/ GetHparams
    \/ GetBenchmarkResults
    \/ MergeResults
    \/ MakeDataframe
    \/ AggregateResults
    \/ ReturnFrame

Spec == Init /\ [][Next]_vars

(***************************************************************************)
(* _merge_results on its own: any two results over a few keys              *)
(***************************************************************************)

EmptyStore == [executions |-> <<>>, artifacts |-> <<>>, events |-> <<>>]

MergeKeys == {<<"1", ".", "a">>, <<"1", ".", "b">>, <<"a", "b", "c", ".", "a">>}

MergeProps ==
    { <<"l", "r">> :> <<"int", 1>>,
      (<<"l", "r">> :> <<"int", 2>>) @@ (<<"a", "c", "c", "u", "r", "a", "c", "y">> :> <<"float", <<4, 5>>>>),
      <<"a", "c", "c", "u", "r", "a", "c", "y">> :> <<"int", 1>> }

MergeNames == { <<<<"l", "r">>>>, <<<<"a", "c", "c", "u", "r", "a", "c", "y">>, <<"l", "r">>>> }

\* res is a _Result of n entries with distinct keys
IsMergeInput(res, n) ==
    \E keys \in [1..n -> MergeKeys], props \in [1..n -> MergeProps], names \in MergeNames :
        /\ \A i, j \in 1..n : i # j => keys[i] # keys[j]
        /\ res = [properties |-> [i \in 1..n |-> [key |-> keys[i], props |-> props[i]]],
                  property_names |-> names]

InitMerge ==
    /\ store = EmptyStore
    /\ metric_aggregators = <<>>
    /\ pc = "metrics"
    /\ err = ""
    /\ \E n1, n2 \in 0..MaxKeys :
          /\ IsMergeInput(hparams_result, n1)
          /\ IsMergeInput(metrics_result, n2)
    /\ result = EmptyResult
    /\ df = EmptyFrame
    /\ out = EmptyFrame

NextMerge == MergeResults

SpecMerge == InitMerge /\ [][NextMerge]_vars

(***************************************************************************)
(* Properties                                                              *)
(***************************************************************************)

TrainerExecs == get_executions_by_type(store, _TRAINER)

Artifacts == get_artifacts_by_type(store, _BENCHMARK_RESULT)

RunIdOf(ex) == StringValue(ex.properties, RUN_ID_KEY)

\* The run ids of the executions of the store that an event links to artifact a.
ProducerRunIds(a) ==
    { RunIdOf(store.executions[i]) :
        i \in { i \in 1..Len(store.executions) :
                  \E e \in 1..Len(store.events) :
                      /\ store.events[e].artifact_id = a.id
                      /\ store.events[e].execution_id = store.executions[i].id } }

\* The 'benchmark' property of artifact a.
BenchmarkOf(a) == a.custom_properties[BENCHMARK_KEY][2]

\* The metric values of artifact a: its properties but bookkeeping and context.
MetricsOf(a) ==
    [n \in (DOMAIN a.custom_properties) \ ExcludedNames |-> Evals(a.custom_properties)[n]]

\* The hparam values of trainer execution ex.
HparamsOf(ex) == _parse_hparams(StringValue(ex.properties, _HPARAMS)).hparams

\* The rows of table t for run r and the benchmark with the full name b.
RowsFor(t, r, b) ==
    { i \in 1..Len(t.rows) :
        /\ t.rows[i][RUN_ID_KEY] = <<"str", r>>
        /\ t.rows[i][BENCHMARK_FULL_KEY] = <<"str", b>> }

\* name carries a suffix .run_<i>_of_<n> from position k on, i and n of one or
\* more digits.
HasRepetitionAt(name, k) ==
    /\ k >= 1 /\ k + 4 <= Len(name)
    /\ SubSeq(name, k, k + 4) = <<".", "r", "u", "n", "_">>
    /\ \E m \in (k + 6)..(Len(name) - 4) :
          /\ AllDigits(SubSeq(name, k + 5, m - 1))
          /\ SubSeq(name, m, m + 3) = <<"_", "o", "f", "_">>
          /\ AllDigits(SubSeq(name, m + 4, Len(name)))

\* name without its trailing .run_<i>_of_<n>, if it has one.
WithoutRepetition(name) ==
    IF \E k \in 1..Len(name) : HasRepetitionAt(name, k)
    THEN SubSeq(name, 1, (CHOOSE k \in 1..Len(name) : HasRepetitionAt(name, k)) - 1)
    ELSE name

\* C1: a trainer execution of run r with component_id 'EstimatorTrainer.' + b and a
\* result artifact of benchmark b produced in run r get the same composite key, and
\* the overview without aggregators has exactly one row for (r, b), which carries
\* the hparam values of the execution and the metric values of the artifact.
\* (Stated for an execution with hparams and an artifact with metrics, the only
\* execution and the only artifact of run r and benchmark b.)
C1_Join ==
    (pc = "done" /\ metric_aggregators = <<>>) =>
        \A x \in 1..Len(TrainerExecs), y \in 1..Len(Artifacts) :
            LET ex == TrainerExecs[x]
                a == Artifacts[y]
                r == RunIdOf(ex)
                b == BenchmarkOf(a)
            IN  ( /\ StringValue(ex.properties, _TRAINER_ID) = _TRAINER_ID_PREFIX \o <<".">> \o b
                  /\ ProducerRunIds(a) = {r}
                  /\ \A z \in 1..Len(TrainerExecs) :
                        z # x => \/ RunIdOf(TrainerExecs[z]) # r
                                 \/ StringValue(TrainerExecs[z].properties, _TRAINER_ID)
                                      # StringValue(ex.properties, _TRAINER_ID)
                  /\ \A z \in 1..Len(Artifacts) :
                        z # y => \/ ProducerRunIds(Artifacts[z]) # {r}
                                 \/ BenchmarkOf(Artifacts[z]) # b
                  /\ DOMAIN HparamsOf(ex) # {}
                  /\ DOMAIN MetricsOf(a) # {} )
                => /\ r \o TrainerId(StringValue(ex.properties, _TRAINER_ID)) = r \o <<".">> \o b
                   /\ Cardinality(RowsFor(out, r, b)) = 1
                   /\ \A i \in RowsFor(out, r, b) :
                        /\ \A n \in DOMAIN HparamsOf(ex) : out.rows[i][n] = HparamsOf(ex)[n]
                        /\ \A n \in DOMAIN MetricsOf(a) : out.rows[i][n] = MetricsOf(a)[n]

\* C2: in the table _make_dataframe builds, 'benchmark' holds the name without its
\* one trailing .run_<i>_of_<n> (i, n of one or more digits), unchanged if it has
\* none, and 'benchmark_fullname' holds the name as it was.
C2_Strip ==
    pc = "frame" =>
        \A i \in 1..Len(df.rows) :
            /\ df.rows[i][BENCHMARK_FULL_KEY] = ResultsList(result)[i][BENCHMARK_KEY]
            /\ df.rows[i][BENCHMARK_KEY] =
                   <<"str", WithoutRepetition(ResultsList(result)[i][BENCHMARK_KEY][2])>>

\* No merged entry has more properties than there are default columns.
NoQualifyingEntry ==
    \A i \in 1..Len(result.properties) :
        Cardinality(DOMAIN result.properties[i].props) <= Len(_DEFAULT_COLUMNS)

\* C3: when no merged entry has more than len(_DEFAULT_COLUMNS) properties, overview
\* does not raise and returns a table without rows, with or without aggregators.
C3_EmptyResult ==
    [][ (pc \in {"merged", "frame"} /\ NoQualifyingEntry)
        => (pc' # "raised" /\ (pc' = "done" => out'.rows = <<>>)) ]_vars

\* The columns rows are grouped by, next to the benchmark.
GroupingColumns ==
    {STARTED_AT, RUN_ID_KEY} \cup Elems(hparams_result.property_names)
    \cup (IF InFrame(df, NUM_RUNS_KEY) THEN {NUM_RUNS_KEY} ELSE {})

\* Rows i and j of the overview are repetitions of one benchmark in one group.
SameGroup(i, j) ==
    /\ WithoutRepetition(df.rows[i][BENCHMARK_FULL_KEY][2])
         = WithoutRepetition(df.rows[j][BENCHMARK_FULL_KEY][2])
    /\ \A c \in GroupingColumns : df.rows[i][c] = df.rows[j][c]

\* C4: with the aggregator 'mean', the repetitions bench.run_<i>_of_<n> of one
\* benchmark that agree on the grouping columns give exactly one row, under the
\* benchmark 'bench', whose '<metric> mean' is the mean of their metric values.
C4_Aggregation ==
    (pc = "done" /\ metric_aggregators = <<Mean_>>) =>
        \A i \in 1..Len(df.rows) :
            LET bench == WithoutRepetition(df.rows[i][BENCHMARK_FULL_KEY][2])
                members == SelectSeq(df.rows,
                               LAMBDA r : \E j \in 1..Len(df.rows) :
                                              r = df.rows[j] /\ SameGroup(i, j))
                grouped == { k \in 1..Len(out.rows) :
                               /\ out.rows[k][BENCHMARK_KEY] = <<"str", bench>>
                               /\ \A c \in GroupingColumns : out.rows[k][c] = df.rows[i][c] }
            IN  (\A c \in GroupingColumns : ~IsNA(df.rows[i][c]))
                => /\ Cardinality(grouped) = 1
                   /\ \A k \in grouped :
                        \A m \in Elems(metrics_result.property_names) :
                            out.rows[k][FlatName(m, Mean_)]
                              = Mean([n \in 1..Len(members) |-> members[n][m]])

\* C5: _merge_results(A, B) has the keys of A and of B; an entry of one of them only
\* is that entry; an entry of both has the property names of both, B's value where
\* B has one and A's elsewhere; the names are A's followed by B's.
C5_Merge ==
    [][ (pc = "metrics" /\ pc' = "merged") =>
          LET A == hparams_result.properties
              B == metrics_result.properties
              R == result'.properties
          IN  /\ Keys(R) = Keys(A) \cup Keys(B)
              /\ Len(R) = Cardinality(Keys(R))
              /\ \A k \in Keys(A) \ Keys(B) : Get(R, k) = Get(A, k)
              /\ \A k \in Keys(B) \ Keys(A) : Get(R, k) = Get(B, k)
              /\ \A k \in Keys(A) \cap Keys(B) :
                    /\ DOMAIN Get(R, k) = (DOMAIN Get(A, k)) \cup (DOMAIN Get(B, k))
                    /\ \A n \in DOMAIN Get(B, k) : Get(R, k)[n] = Get(B, k)[n]
                    /\ \A n \in (DOMAIN Get(A, k)) \ (DOMAIN Get(B, k)) :
                          Get(R, k)[n] = Get(A, k)[n]
              /\ result'.property_names
                   = hparams_result.property_names \o metrics_result.property_names ]_vars

\* A merged result with an entry under a key that B lacks, an entry under a key of
\* B that holds B's values and a property B's entry lacks (the key was A's too),
\* an entry that is B's, and a name that is in the list twice.
C5_Witness ==
    /\ pc = "merged"
    /\ Keys(result.properties) \ Keys(metrics_result.properties) # {}
    /\ \E k \in Keys(metrics_result.properties) :
          /\ (DOMAIN Get(result.properties, k))
               \ (DOMAIN Get(metrics_result.properties, k)) # {}
          /\ \A n \in DOMAIN Get(metrics_result.properties, k) :
                Get(result.properties, k)[n] = Get(metrics_result.properties, k)[n]
    /\ \E k \in Keys(metrics_result.properties) :
          Get(result.properties, k) = Get(metrics_result.properties, k)
    /\ \E i, j \in 1..Len(result.property_names) :
          i # j /\ result.property_names[i] = result.property_names[j]

\* The ids of the executions of the store that an event links to artifact a.
ProducerIds(a) ==
    { store.executions[i].id :
        i \in { i \in 1..Len(store.executions) :
                  \E e \in 1..Len(store.events) :
                      /\ store.events[e].artifact_id = a.id
                      /\ store.events[e].execution_id = store.executions[i].id } }

\* Artifacts x and y, each published by an execution of its own, resolve to the
\* same composite key (run id, benchmark name).
SameKey(x, y) ==
    /\ x # y
    /\ ProducerIds(Artifacts[x]) \cap ProducerIds(Artifacts[y]) = {}
    /\ \E r \in ProducerRunIds(Artifacts[x]) :
          ProducerRunIds(Artifacts[x]) = {r} /\ ProducerRunIds(Artifacts[y]) = {r}
    /\ BenchmarkOf(Artifacts[x]) = BenchmarkOf(Artifacts[y])

\* C6: when two result artifacts resolve to the same composite key, overview(store)
\* does not raise, and the table has one row for that key, never two.
\* (The one row is stated for a key whose entry passes overview's filter.)
C6_Collision ==
    (metric_aggregators = <<>> /\ \E x, y \in 1..Len(Artifacts) : SameKey(x, y)) =>
        /\ pc # "raised"
        /\ pc = "done" =>
             \A x, y \in 1..Len(Artifacts) :
                 SameKey(x, y) =>
                     LET r == CHOOSE r \in ProducerRunIds(Artifacts[x]) : TRUE
                         b == BenchmarkOf(Artifacts[x])
                     IN  /\ Cardinality(RowsFor(out, r, b)) <= 1
                         /\ (~NoQualifyingEntry /\ HasKey(result.properties, r \o <<".">> \o b)
                             /\ Cardinality(DOMAIN Get(result.properties, r \o <<".">> \o b))
                                  > Len(_DEFAULT_COLUMNS))
                            => Cardinality(RowsFor(out, r, b)) = 1

\* C7: every row of the overview has an hparam or a metric value; an entry with
\* nothing but contextual and bookkeeping properties is no row.
C7_NoIncompleteRow ==
    (pc = "done" /\ metric_aggregators = <<>>) =>
        \A i \in 1..Len(out.rows) :
            \E n \in Elems(result.property_names) : ~IsNA(out.rows[i][n])

\* run_id is an integer that is the timestamp of a datetime.
ValidEpoch(run_id) == IntLiteral(run_id).ok /\ FromTimestamp(IntLiteral(run_id)) = "datetime"

\* The start time of every entry of res with a run id that is no valid epoch is
\* that run id.
FallsBack(res) ==
    \A i \in 1..Len(res.properties) :
        LET props == res.properties[i].props
        IN  ~ValidEpoch(props[RUN_ID_KEY][2]) => props[STARTED_AT] = props[RUN_ID_KEY]

\* C8: a run id that is no valid epoch integer never makes _get_hparams or
\* _get_benchmark_results raise; the start time of its entry is the run id itself.
C8_StartTimeFallback ==
    /\ pc = "raised" => err \notin {"OSError", "OverflowError"}
    /\ FallsBack(hparams_result)
    /\ FallsBack(metrics_result)

\* The text of s before and after its first "=".
BeforeEquals(s) == SubSeq(s, 1, IndexIn("=", s) - 1)

AfterEquals(s) == SubSeq(s, IndexIn("=", s) + 1, Len(s))

\* The entries of the hparams of trainer execution ex, if they are a literal list.
EntriesOf(ex) == LiteralEval(StringValue(ex.properties, _HPARAMS))

\* C9: _parse_hparams fails only on a text that is no literal list; it binds the
\* text before the first "=" of every entry to the coerced text after it.
\* (Stated for one trainer execution whose entries all hold an "=" and have
\* different names.)
C9_SplitOnFirstEquals ==
    (Len(TrainerExecs) = 1 /\ pc \in {"hparams", "raised"}) =>
        LET ex == TrainerExecs[1]
            items == EntriesOf(ex).items
        IN  ( /\ EntriesOf(ex).ok
              /\ \A i \in 1..Len(items) : IndexIn("=", items[i]) > 0
              /\ \A i, j \in 1..Len(items) :
                    i # j => BeforeEquals(items[i]) # BeforeEquals(items[j]) )
            => /\ ~(pc = "raised" /\ err \in {"ValueError", "SyntaxError"})
               /\ pc # "raised" =>
                    \A i \in 1..Len(items) :
                        /\ BeforeEquals(items[i]) \in DOMAIN hparams_result.properties[1].props
                        /\ hparams_result.properties[1].props[BeforeEquals(items[i])]
                             = _to_pytype(AfterEquals(items[i]))

\* C10: _get_benchmark_results fails with a KeyError only when some artifact has
\* no event linking it to an execution of the store (or has no 'benchmark').
C10_RunIdResolution ==
    [][ (pc = "hparams" /\ pc' = "raised" /\ err' = "KeyError")
        => \E y \in 1..Len(Artifacts) :
              \/ ProducerRunIds(Artifacts[y]) = {}
              \/ BENCHMARK_KEY \notin DOMAIN Artifacts[y].custom_properties ]_vars

=============================================================================
